---- MODULE Spec2Model ----
(***************************************************************************)
(* Model of ndexnestloader/ndexloadnestsubnetworks.py: the NDEx NeST       *)
(* subnetwork loader (main, NDExNeSTLoader.run and the helpers it calls).  *)
(*                                                                         *)
(* Python strings that the code takes apart (split, startswith, float)     *)
(* are sequences of one-character strings; dictionary keys with a fixed    *)
(* vocabulary (column names, attribute names) are TLA+ strings.  A Python  *)
(* dict is a function with a finite domain.                                *)
(***************************************************************************)
EXTENDS Integers, Sequences, FiniteSets, TLC

----------------------------------------------------------------------------
(* Dictionaries *)

EmptyDict == << >>

Put(d, k, v) == [x \in (DOMAIN d) \cup {k} |-> IF x = k THEN v ELSE d[x]]

Del(d, k) == [x \in (DOMAIN d) \ {k} |-> d[x]]

----------------------------------------------------------------------------
(* Module-level names of the source *)

PROTEIN_ONE == "Protein 1"

PROTEIN_TWO == "Protein 2"

GENERATED_BY_ATTRIB == "prov:wasGeneratedBy"

DERIVED_FROM_ATTRIB == "prov:wasDerivedFrom"

FLOAT_ATTRIBUTES == {"Integrated score",
                     "evidence: Protein co-expression",
                     "evidence: Co-dependence",
                     "evidence: Sequence similarity",
                     "evidence: Physical",
                     "evidence: mRNA co-expression"}

----------------------------------------------------------------------------
(* Python values held in a score-table row: a str or a float.  A float is   *)
(* kept as its integer part and its fraction digits without trailing zeros, *)
(* so that "0.5", ".5" and "0.50" are the same float and differ from the    *)
(* strings they were read from.                                             *)

Str(s) == [kind |-> "str", str |-> s, int |-> 0, frac |-> << >>]

Float(i, f) == [kind |-> "float", str |-> << >>, int |-> i, frac |-> f]

Digits == {"0", "1", "2", "3", "4", "5", "6", "7", "8", "9"}

DigitVal(c) == CASE c = "0" -> 0 [] c = "1" -> 1 [] c = "2" -> 2 [] c = "3" -> 3
                 [] c = "4" -> 4 [] c = "5" -> 5 [] c = "6" -> 6 [] c = "7" -> 7
                 [] c = "8" -> 8 [] c = "9" -> 9

RECURSIVE IntOfDigits(_)
IntOfDigits(s) ==
    IF s = << >> THEN 0
    ELSE 10 * IntOfDigits(SubSeq(s, 1, Len(s) - 1)) + DigitVal(s[Len(s)])

RECURSIVE StripTrailingZeros(_)
StripTrailingZeros(s) ==
    IF s # << >> /\ s[Len(s)] = "0"
    THEN StripTrailingZeros(SubSeq(s, 1, Len(s) - 1))
    ELSE s

DotPositions(s) == {i \in 1..Len(s) : s[i] = "."}

\* The texts float() accepts, within the decimal notation the table uses:
\* digits with at most one point and at least one digit.
IsFloatText(s) ==
    /\ \A i \in 1..Len(s) : s[i] \in Digits \cup {"."}
    /\ Cardinality(DotPositions(s)) <= 1
    /\ \E i \in 1..Len(s) : s[i] \in Digits

\* float(v): of a str that is a decimal text, the float; of a float, itself.
\* Callers test CanFloat first: float() raises ValueError otherwise.
CanFloat(v) == v.kind = "float" \/ IsFloatText(v.str)

ToFloat(v) ==
    IF v.kind = "float" THEN v
    ELSE LET s == v.str
             dot == IF DotPositions(s) = {} THEN Len(s) + 1
                    ELSE CHOOSE i \in DotPositions(s) : TRUE
         IN Float(IntOfDigits(SubSeq(s, 1, dot - 1)),
                  StripTrailingZeros(SubSeq(s, dot + 1, Len(s))))

----------------------------------------------------------------------------
(* str.split(' ') and str.startswith *)

SPACE == " "

\* s.split(' '): the pieces between single spaces; '' gives [''], and two
\* adjacent spaces give an empty piece.
RECURSIVE SplitFrom(_, _, _)
SplitFrom(s, i, piece) ==
    IF i > Len(s) THEN << piece >>
    ELSE IF s[i] = SPACE THEN << piece >> \o SplitFrom(s, i + 1, << >>)
    ELSE SplitFrom(s, i + 1, Append(piece, s[i]))

Split(s) == SplitFrom(s, 1, << >>)

StartsWith(s, prefix) ==
    /\ Len(s) >= Len(prefix)
    /\ SubSeq(s, 1, Len(prefix)) = prefix

----------------------------------------------------------------------------
(* NDExNeSTLoader._get_ias_score_map: the rows csv.DictReader yields are    *)
(* dicts from column name to the str read.                                  *)

\* for key in row: if key in float_attrs: row[key] = float(row[key])
RowCanConvert(row) ==
    \A key \in DOMAIN row : key \in FLOAT_ATTRIBUTES => CanFloat(row[key])

\* Mutant: every column that reads as a number is converted.
ConvertRowEveryNumber(row) ==
    [key \in DOMAIN row |-> IF CanFloat(row[key]) THEN ToFloat(row[key]) ELSE row[key]]

ConvertRow(row) ==
    [key \in DOMAIN row |->
        IF key \in FLOAT_ATTRIBUTES THEN ToFloat(row[key]) ELSE row[key]]

\* score_map[row[PROTEIN_ONE]][row[PROTEIN_TWO]] = row
StoreRow(score_map, row) ==
    LET p1 == row[PROTEIN_ONE].str
        p2 == row[PROTEIN_TWO].str
        inner == IF p1 \in DOMAIN score_map THEN score_map[p1] ELSE EmptyDict
    IN Put(score_map, p1, Put(inner, p2, row))

\* One pass of the loop body.  A row without the 'Protein 1' or 'Protein 2'
\* key raises KeyError and a float column that is no number raises ValueError.
ReadRow(score_map, row) ==
    IF PROTEIN_ONE \notin DOMAIN row THEN [raised |-> TRUE, score_map |-> score_map]
    ELSE IF ~RowCanConvert(row) THEN [raised |-> TRUE, score_map |-> score_map]
    ELSE IF PROTEIN_TWO \notin DOMAIN row THEN [raised |-> TRUE, score_map |-> score_map]
    ELSE [raised |-> FALSE, score_map |-> StoreRow(score_map, ConvertRow(row))]

RECURSIVE ReadRows(_, _, _)
ReadRows(rows, i, score_map) ==
    IF i > Len(rows) THEN [raised |-> FALSE, score_map |-> score_map]
    ELSE LET r == ReadRow(score_map, rows[i])
         IN IF r.raised THEN r ELSE ReadRows(rows, i + 1, r.score_map)

\* The parse of _get_ias_score_map: score_map = {} and the loop over reader.
ParseScoreRows(rows) == ReadRows(rows, 1, EmptyDict)

----------------------------------------------------------------------------
(* CX2Network, as far as the loader uses it: nodes and edges get the next   *)
(* free identifier, counted from 0; nodes[i + 1] is the node with id i.     *)

NewNetwork == [nodes |-> << >>, edges |-> << >>, attrs |-> EmptyDict,
               visual |-> "none"]

NextNodeId(net) == Len(net.nodes)

AddNode(net, attributes) == [net EXCEPT !.nodes = Append(@, attributes)]

AddEdge(net, source, target, attributes) ==
    [net EXCEPT !.edges = Append(@, [s |-> source, t |-> target, v |-> attributes])]

----------------------------------------------------------------------------
(* NDExNeSTLoader._get_score_map_edge_attributes *)

\* Mutant: 'and' for 'or', so that no key is left out.
GetScoreMapEdgeAttributesAnd(ias_attributes) ==
    [key \in {k \in DOMAIN ias_attributes : ~(k = PROTEIN_ONE /\ k = PROTEIN_TWO)} |->
        ias_attributes[key]]

GetScoreMapEdgeAttributes(ias_attributes) ==
    [key \in (DOMAIN ias_attributes) \ {PROTEIN_ONE, PROTEIN_TWO} |->
        ias_attributes[key]]

----------------------------------------------------------------------------
(* NDExNeSTLoader._create_network_from_gene_list.  The loop state is the    *)
(* pair of node_map (gene symbol -> node id) and net.                       *)

\* Mutant: a node is added without looking into node_map.
EnsureNodeAlways(st, protein) ==
    [node_map |-> Put(st.node_map, protein, NextNodeId(st.net)),
     net |-> AddNode(st.net, [name |-> protein])]

\* if protein not in node_map: node_map[protein] = net.add_node({'name': protein})
EnsureNode(st, protein) ==
    IF protein \in DOMAIN st.node_map THEN st
    ELSE [node_map |-> Put(st.node_map, protein, NextNodeId(st.net)),
          net |-> AddNode(st.net, [name |-> protein])]

\* Whether the inner loop goes on to the edge for protein_two.
HasScore(score_map, protein_one, protein_two) ==
    protein_two \in DOMAIN score_map[protein_one]

\* Mutant: source and target of the edge are exchanged.
InnerBodySwapped(st, protein_one, protein_two, score_map) ==
    IF ~HasScore(score_map, protein_one, protein_two) THEN st
    ELSE LET st2 == EnsureNode(st, protein_two)
         IN [st2 EXCEPT !.net =
                AddEdge(@, st2.node_map[protein_two], st2.node_map[protein_one],
                        GetScoreMapEdgeAttributes(score_map[protein_one][protein_two]))]

\* Mutant: an edge is added in both directions.
InnerBodyBothDirections(st, protein_one, protein_two, score_map) ==
    IF ~HasScore(score_map, protein_one, protein_two) THEN st
    ELSE LET st2 == EnsureNode(st, protein_two)
             attributes == GetScoreMapEdgeAttributes(score_map[protein_one][protein_two])
         IN [st2 EXCEPT !.net =
                AddEdge(AddEdge(@, st2.node_map[protein_one], st2.node_map[protein_two],
                                attributes),
                        st2.node_map[protein_two], st2.node_map[protein_one], attributes)]

\* The body of the inner loop for one protein_two.
InnerBody(st, protein_one, protein_two, score_map) ==
    IF ~HasScore(score_map, protein_one, protein_two) THEN st
    ELSE LET st2 == EnsureNode(st, protein_two)
         IN [st2 EXCEPT !.net =
                AddEdge(@, st2.node_map[protein_one], st2.node_map[protein_two],
                        GetScoreMapEdgeAttributes(score_map[protein_one][protein_two]))]

RECURSIVE InnerLoop(_, _, _, _, _)
InnerLoop(st, protein_one, gene_list, j, score_map) ==
    IF j > Len(gene_list) THEN st
    ELSE InnerLoop(InnerBody(st, protein_one, gene_list[j], score_map),
                   protein_one, gene_list, j + 1, score_map)

\* The body of the outer loop for one protein_one.
OuterBody(st, protein_one, gene_list, score_map) ==
    IF protein_one \notin DOMAIN score_map THEN st
    ELSE InnerLoop(EnsureNode(st, protein_one), protein_one, gene_list, 1, score_map)

RECURSIVE OuterLoop(_, _, _, _)
OuterLoop(st, gene_list, i, score_map) ==
    IF i > Len(gene_list) THEN st
    ELSE OuterLoop(OuterBody(st, gene_list[i], gene_list, score_map),
                   gene_list, i + 1, score_map)

CreateNetworkFromGeneList(gene_list, score_map) ==
    OuterLoop([node_map |-> EmptyDict, net |-> NewNetwork], gene_list, 1, score_map).net

----------------------------------------------------------------------------
(* NDExNeSTLoader.get_name_and_genes_from_node.  None is a value no str     *)
(* equals: every element of a str is a single character.                    *)

None == << "<None>" >>

\* Mutant: a node without 'Annotation' gets the empty name instead of None.
GetNameAndGenesFromNodeEmptyName(node) ==
    IF "v" \notin DOMAIN node THEN [name |-> None, gene_list |-> None]
    ELSE IF "Genes" \notin DOMAIN node["v"] THEN [name |-> None, gene_list |-> None]
    ELSE [name |-> IF "Annotation" \in DOMAIN node["v"]
                   THEN node["v"]["Annotation"] ELSE << >>,
          gene_list |-> Split(node["v"]["Genes"])]

GetNameAndGenesFromNode(node) ==
    IF "v" \notin DOMAIN node THEN [name |-> None, gene_list |-> None]
    ELSE IF "Genes" \notin DOMAIN node["v"] THEN [name |-> None, gene_list |-> None]
    ELSE [name |-> IF "Annotation" \in DOMAIN node["v"]
                   THEN node["v"]["Annotation"] ELSE None,
          gene_list |-> Split(node["v"]["Genes"])]

----------------------------------------------------------------------------
(* NDExNeSTLoader._get_network_url, _update_network_attributes and          *)
(* _add_assembly_attributes_as_net_attributes                               *)

GetNetworkUrl(server, network_id) ==
    LET server_url == IF server = "None" \/ server = "public.ndexbio.org"
                      THEN "www.ndexbio.org" ELSE server
    IN << "https://", server_url, "/viewer/networks/", network_id >>

DESCRIPTION_TEXT == << "<p>This network represents a subsystem of the NeST hierarchical model ...</p>" >>

VERSION_TEXT == << "20211001" >>

REFERENCE_TEXT == << "<p>Zheng F.<i>et al</i>. ... doi: 10.1126/science.abf3067</p>" >>

GENERATED_BY_TEXT == << "<a href=\"https://github.com/ndexcontent/ndexnestloader\">ndexnestloader ", "__version__", "</a>" >>

DerivedFromText(server, nest) ==
    << "<a href=\"" >> \o GetNetworkUrl(server, nest)
        \o << "\" target=\"_blank\">NeST Map - Main Model</a>" >>

\* Mutant: the name is given a prefix.
UpdateNetworkAttributesPrefixed(ldr, node_name, attrs) ==
    LET a1 == Put(attrs, "name", << "N", "e", "S", "T", ":", " " >> \o node_name)
        a2 == IF "Description" \in DOMAIN a1 THEN Del(a1, "Description") ELSE a1
        a3 == Put(a2, "description", DESCRIPTION_TEXT)
        a4 == Put(a3, "version", VERSION_TEXT)
        a5 == Put(a4, "reference", REFERENCE_TEXT)
        a6 == Put(a5, GENERATED_BY_ATTRIB, GENERATED_BY_TEXT)
    IN Put(a6, DERIVED_FROM_ATTRIB, DerivedFromText(ldr.server, ldr.nest))

UpdateNetworkAttributes(ldr, node_name, attrs) ==
    LET a1 == Put(attrs, "name", node_name)
        a2 == IF "Description" \in DOMAIN a1 THEN Del(a1, "Description") ELSE a1
        a3 == Put(a2, "description", DESCRIPTION_TEXT)
        a4 == Put(a3, "version", VERSION_TEXT)
        a5 == Put(a4, "reference", REFERENCE_TEXT)
        a6 == Put(a5, GENERATED_BY_ATTRIB, GENERATED_BY_TEXT)
    IN Put(a6, DERIVED_FROM_ATTRIB, DerivedFromText(ldr.server, ldr.nest))

NotCopiedAttributes == {"n", "name", "Annotation", "Size", "Size-Log", "Genes"}

AddAssemblyAttributesAsNetAttributes(node, attrs) ==
    LET copied == (DOMAIN node["v"]) \ NotCopiedAttributes
    IN [k \in (DOMAIN attrs) \cup copied |->
            IF k \in copied THEN node["v"][k] ELSE attrs[k]]

----------------------------------------------------------------------------
(* NDExNeSTLoader._save_update_network: the calls it makes on the NDEx      *)
(* client, in order (none or one).  A call is recorded with the name of the *)
(* network it sends.                                                        *)

UpdateCall(attrs, dict, net) ==
    [op |-> "update_cx2_network", target |-> dict[attrs["name"]],
     visibility |-> "n/a", name |-> attrs["name"], net |-> net]

\* Mutant: the visibility is fixed instead of the configured one.
SaveCallPublic(attrs, visibility, net) ==
    [op |-> "save_new_cx2_network", target |-> "n/a",
     visibility |-> "PUBLIC", name |-> attrs["name"], net |-> net]

SaveCall(attrs, visibility, net) ==
    [op |-> "save_new_cx2_network", target |-> "n/a",
     visibility |-> visibility, name |-> attrs["name"], net |-> net]

\* Mutant: the save branch is not gated by dry-run.
SaveUpdateNetworkUngatedSave(ldr, attrs, dict, net) ==
    IF attrs["name"] \in DOMAIN dict
    THEN IF ldr.dryrun THEN << >> ELSE << UpdateCall(attrs, dict, net) >>
    ELSE << SaveCall(attrs, ldr.visibility, net) >>

\* Mutant: the index is not consulted, every network is saved as new.
SaveUpdateNetworkAlwaysSaves(ldr, attrs, dict, net) ==
    IF ldr.dryrun THEN << >> ELSE << SaveCall(attrs, ldr.visibility, net) >>

\* Mutant: a network without nodes is not sent.
SaveUpdateNetworkSkipsEmpty(ldr, attrs, dict, net) ==
    IF net.nodes = << >> THEN << >>
    ELSE IF attrs["name"] \in DOMAIN dict
    THEN IF ldr.dryrun THEN << >> ELSE << UpdateCall(attrs, dict, net) >>
    ELSE IF ldr.dryrun THEN << >> ELSE << SaveCall(attrs, ldr.visibility, net) >>

SaveUpdateNetwork(ldr, attrs, dict, net) ==
    IF attrs["name"] \in DOMAIN dict
    THEN IF ldr.dryrun THEN << >> ELSE << UpdateCall(attrs, dict, net) >>
    ELSE IF ldr.dryrun THEN << >> ELSE << SaveCall(attrs, ldr.visibility, net) >>

----------------------------------------------------------------------------
(* NDExNeSTLoader.check_for_existing_networks.  The user's networks on the  *)
(* server are a list of summaries the model follows one by one (listed,     *)
(* before and after) and a count of further summaries between them (more),  *)
(* each with a name of its own that no hierarchy node carries.  A page is   *)
(* the same split of the first `limit` summaries.                           *)

PAGE_LIMIT == 10000

Min(a, b) == IF a < b THEN a ELSE b

Take(s, n) == SubSeq(s, 1, Min(Len(s), n))

NoSummaries == [before |-> << >>, more |-> 0, after |-> << >>]

SummaryCount(page) == Len(page.before) + page.more + Len(page.after)

\* get_user_network_summaries(self._user, limit=10000): no offset is passed,
\* so every request is answered from the start of the user's networks.
GetUserNetworkSummaries(nets, limit) ==
    LET b == Take(nets.before, limit)
        m == Min(nets.more, limit - Len(b))
        a == Take(nets.after, limit - Len(b) - m)
    IN [before |-> b, more |-> m, after |-> a]

\* all_netsummaries.extend(net_summaries), for the summaries followed one by one
Extend(all, page) ==
    [listed |-> all.listed \o page.before \o page.after,
     others |-> all.others + page.more]

\* The loop over all_netsummaries that fills network_dict.
RECURSIVE FillNetworkDict(_, _, _, _, _)
FillNetworkDict(dict, listed, i, user, ignore_owner) ==
    IF i > Len(listed) THEN dict
    ELSE LET ns == listed[i]
         IN IF "name" \notin DOMAIN ns
            THEN FillNetworkDict(dict, listed, i + 1, user, ignore_owner)
            ELSE IF ~ignore_owner /\ ns["owner"] # user
            THEN FillNetworkDict(dict, listed, i + 1, user, ignore_owner)
            ELSE FillNetworkDict(Put(dict, ns["name"], ns["externalId"]),
                                 listed, i + 1, user, ignore_owner)

----------------------------------------------------------------------------
(* Inputs: gene symbols, hierarchy nodes, score files and the user's        *)
(* networks on the server.                                                  *)

A1BG == << "A", "1", "B", "G" >>

A1CF == << "A", "1", "C", "F" >>

ABCB4 == << "A", "B", "C", "B", "4" >>

GeneX == << "X" >>

JoinGenes(a, b) == a \o << SPACE >> \o b

NEST_PREFIX == << "N", "E", "S", "T", ":" >>

NameA == << "a" >>

NameB == << "b" >>

\* Hierarchy nodes: without 'v', without 'Genes', without 'Annotation', with
\* an unnamed assembly (Annotation 'NEST:1'), and named assemblies of 1, 2
\* and 3 genes, two of them under the same name.
NodeNoV == [id |-> 1]

NodeNoGenes == [id |-> 2, v |-> [n |-> "NEST:2", Annotation |-> NameA]]

NodeNoAnnotation == [id |-> 3, v |-> [n |-> "NEST:3", Genes |-> A1BG]]

NodeNest == [id |-> 4, v |-> [n |-> "NEST:1", Genes |-> JoinGenes(A1BG, A1CF),
                              Annotation |-> NEST_PREFIX \o << "1" >>]]

NodeA2 == [id |-> 5, v |-> [n |-> "NEST:5", Genes |-> JoinGenes(A1BG, A1CF),
                            Annotation |-> NameA, Weight |-> << "0.37" >>]]

NodeA3 == [id |-> 6, v |-> [n |-> "NEST:6",
                            Genes |-> JoinGenes(JoinGenes(A1BG, A1CF), GeneX),
                            Annotation |-> NameA, Size |-> << "3" >>]]

NodeB1 == [id |-> 7, v |-> [n |-> "NEST:7", Genes |-> GeneX, Annotation |-> NameB,
                            name |-> << "other" >>,
                            description |-> << "from the node" >>,
                            Description |-> << "From the node" >>,
                            version |-> << "1" >>]]

NodePool == {NodeNoV, NodeNoGenes, NodeNoAnnotation, NodeNest, NodeA2, NodeA3, NodeB1}

MaxNodes == 2

RECURSIVE SeqsUpTo(_, _)
SeqsUpTo(S, n) ==
    IF n = 0 THEN {<< >>}
    ELSE LET shorter == SeqsUpTo(S, n - 1)
         IN shorter \cup {Append(s, x) : s \in shorter, x \in S}

\* hierarchy.get_nodes() is keyed by node id: no node comes twice.
Hierarchies ==
    {h \in SeqsUpTo(NodePool, MaxNodes) :
        \A i, j \in DOMAIN h : i # j => h[i] # h[j]}

\* Rows of IAS_score.tsv as csv.DictReader yields them.
ScoreRow(p1, p2, score) ==
    (PROTEIN_ONE :> Str(p1)) @@ (PROTEIN_TWO :> Str(p2))
        @@ ("Integrated score" :> Str(score))

RowsGood == << ScoreRow(A1BG, ABCB4, << "0", ".", "2", "0", "8" >>),
               ScoreRow(A1BG, A1CF, << ".", "5" >>) >>

RowsBadFloat == << ScoreRow(A1BG, A1CF, << "n", "a" >>) >>

\* local: --ias_score names a file on disk; otherwise it is downloaded.
IasSources == {[local |-> TRUE, rows |-> RowsGood],
               [local |-> FALSE, rows |-> RowsGood],
               [local |-> TRUE, rows |-> RowsBadFloat]}

USER == "bob"

Summary(network_name, owner, uuid) ==
    [name |-> network_name, owner |-> owner, externalId |-> uuid]

UserNetworkConfigs ==
    {NoSummaries,
     [before |-> << Summary(NameA, USER, "u1") >>, more |-> 0, after |-> << >>],
     [before |-> << Summary(NameA, USER, "u1"), Summary(NameA, USER, "u2") >>,
      more |-> 0, after |-> << >>],
     [before |-> << Summary(NameB, "eve", "u3") >>, more |-> PAGE_LIMIT - 4,
      after |-> << [owner |-> USER, externalId |-> "u4"],
                   Summary(NameB, USER, "u6") >>],
     [before |-> << Summary(NameA, USER, "u1") >>, more |-> PAGE_LIMIT - 1,
      after |-> << Summary(NameB, USER, "u5") >>]}

MaxSizes == {2, 3}

ArgsSet == [logconf : {"None"}, conf : {"good"}, dryrun : BOOLEAN,
            maxsize : MaxSizes, visibility : {"PUBLIC", "PRIVATE"},
            tempdir : {"None"}, nest : {"9a8f5326"}]
           \cup
           [logconf : {"None", "good", "bad"}, conf : {"good", "bad"},
            dryrun : {FALSE}, maxsize : {3}, visibility : {"PUBLIC"},
            tempdir : {"None", "/tmp/given"}, nest : {"9a8f5326"}]

----------------------------------------------------------------------------
(* State *)

VARIABLES
    entry,            \* the function the caller entered: "main" or a method
    pc,               \* position in the code
    exit_code,        \* value main returned; -1 before it returns
    exception,        \* the exception raised, "None" while there is none
    args,             \* parsed command line
    nest_network,     \* the nodes of the NeST network on the server
    user_networks,    \* the user's networks on the server
    ias_source,       \* what --ias_score names, and its rows
    tempdir_exists,   \* the directory made by tempfile.mkdtemp() exists
    loader,           \* fields of the NDExNeSTLoader object
    hierarchy,        \* run: nodes of the loaded hierarchy
    net_summaries,    \* check_for_existing_networks: last page
    all_netsummaries, \* check_for_existing_networks: pages so far
    requests,         \* get_user_network_summaries requests made
    network_dict,     \* run: name -> uuid
    visual_props,     \* run: style
    score_map,        \* run: score table
    idx,              \* run: position of the loop in hierarchy
    name,             \* run: name of the current node
    gene_list,        \* run: genes of the current node
    sub_network,      \* run: network being built
    net_attrs,        \* run: its attributes
    calls,            \* write calls made on the NDEx client, in order
    steps             \* pipeline steps taken, in order

inputs == << args, nest_network, user_networks, ias_source >>

index_vars == << net_summaries, all_netsummaries, requests, network_dict >>

node_vars == << idx, name, gene_list, sub_network, net_attrs >>

vars == << entry, pc, exit_code, exception, inputs, tempdir_exists, loader,
           hierarchy, index_vars, visual_props, score_map, node_vars, calls, steps >>

NoLoader == [dryrun |-> FALSE, visibility |-> "None", tempdir |-> "None",
             maxsize |-> 0, nest |-> "None", user |-> "None", server |-> "None"]

NoAll == [listed |-> << >>, others |-> 0]

\* Everything but the inputs, the entry point, the loader and the arguments
\* of a method called on its own, before the first step.
Blank ==
    /\ exit_code = -1
    /\ exception = "None"
    /\ tempdir_exists = FALSE
    /\ hierarchy = << >>
    /\ net_summaries = NoSummaries
    /\ all_netsummaries = NoAll
    /\ requests = 0
    /\ network_dict = EmptyDict
    /\ visual_props = "none"
    /\ idx = 1
    /\ name = None
    /\ sub_network = NewNetwork
    /\ net_attrs = EmptyDict
    /\ calls = << >>
    /\ steps = << >>

Init ==
    /\ entry = "main"
    /\ pc = "setup_logging"
    /\ args \in ArgsSet
    /\ nest_network \in Hierarchies
    /\ user_networks \in UserNetworkConfigs
    /\ ias_source \in IasSources
    /\ loader = NoLoader
    /\ score_map = EmptyDict
    /\ gene_list = None
    /\ Blank

----------------------------------------------------------------------------
(* main *)

EXIT_OK == 0

EXIT_ERROR == 2

\* An exception leaves the function entered: in main it reaches the except
\* clause, in a method called on its own it reaches the caller.
RaisedPc == IF entry = "main" THEN "except" ELSE "raised"

Raise(kind) == pc' = RaisedPc /\ exception' = kind

\* _setup_logging(theargs): logging.config.fileConfig raises on a bad file
SetupLogging ==
    /\ pc = "setup_logging"
    /\ IF args.logconf = "bad" THEN Raise("logging configuration")
       ELSE pc' = "construct" /\ UNCHANGED exception
    /\ UNCHANGED << entry, exit_code, inputs, tempdir_exists, loader,
                    hierarchy, index_vars, visual_props, score_map, node_vars,
                    calls, steps >>

\* loader = NDExNeSTLoader(theargs)
Construct ==
    /\ pc = "construct"
    /\ loader' = [dryrun |-> args.dryrun, visibility |-> args.visibility,
                  tempdir |-> args.tempdir, maxsize |-> args.maxsize,
                  nest |-> args.nest, user |-> "None", server |-> "None"]
    /\ pc' = "parse_config"
    /\ UNCHANGED << entry, exit_code, exception, inputs, tempdir_exists,
                    hierarchy, index_vars, visual_props, score_map, node_vars,
                    calls, steps >>

\* Mutant: the except clause returns success.
MainExceptReturnsOk ==
    /\ pc = "except"
    /\ exit_code' = EXIT_OK
    /\ pc' = "done"
    /\ UNCHANGED << entry, exception, inputs, tempdir_exists, loader,
                    hierarchy, index_vars, visual_props, score_map, node_vars,
                    calls, steps >>

\* except Exception: return 2
MainExcept ==
    /\ pc = "except"
    /\ exit_code' = EXIT_ERROR
    /\ pc' = "done"
    /\ UNCHANGED << entry, exception, inputs, tempdir_exists, loader,
                    hierarchy, index_vars, visual_props, score_map, node_vars,
                    calls, steps >>

----------------------------------------------------------------------------
(* NDExNeSTLoader.run, up to the loop *)

\* self._parse_config(): a missing file, section or key raises
ParseConfig ==
    /\ pc = "parse_config"
    /\ IF args.conf = "bad"
       THEN Raise("configuration") /\ UNCHANGED loader
       ELSE /\ loader' = [loader EXCEPT !.user = USER, !.server = "public.ndexbio.org"]
            /\ pc' = "create_ndex_connection"
            /\ UNCHANGED exception
    /\ UNCHANGED << entry, exit_code, inputs, tempdir_exists,
                    hierarchy, index_vars, visual_props, score_map, node_vars,
                    calls, steps >>

\* self._create_ndex_connection(): builds the client, no request is made
CreateNdexConnection ==
    /\ pc = "create_ndex_connection"
    /\ pc' = "get_network_from_ndex"
    /\ UNCHANGED << entry, exit_code, exception, inputs, tempdir_exists, loader,
                    hierarchy, index_vars, visual_props, score_map, node_vars,
                    calls, steps >>

\* hierarchy = self.get_network_from_ndex(network_uuid=self._nest)
GetNetworkFromNdex ==
    /\ pc = "get_network_from_ndex"
    /\ \E ok \in BOOLEAN :
          IF ok THEN /\ hierarchy' = nest_network
                     /\ pc' = "check_for_existing_networks"
                     /\ UNCHANGED exception
          ELSE Raise("remote call") /\ UNCHANGED hierarchy
    /\ UNCHANGED << entry, exit_code, inputs, tempdir_exists, loader,
                    index_vars, visual_props, score_map, node_vars, calls, steps >>

----------------------------------------------------------------------------
(* NDExNeSTLoader.check_for_existing_networks *)

MaxRequests == 3

\* Where a method goes when it returns: on in run, or back to its caller.
ReturnPc(next) == IF entry = "main" THEN next ELSE "returned"

\* net_summaries = self._ndexclient.get_user_network_summaries(...), before
\* the loop
FirstSummaries ==
    /\ pc = "check_for_existing_networks"
    /\ \E ok \in BOOLEAN :
          IF ok
          THEN /\ net_summaries' = GetUserNetworkSummaries(user_networks, PAGE_LIMIT)
               /\ requests' = requests + 1
               /\ pc' = "check_while"
               /\ UNCHANGED exception
          ELSE Raise("remote call") /\ UNCHANGED << net_summaries, requests >>
    /\ UNCHANGED << entry, exit_code, inputs, tempdir_exists, loader,
                    hierarchy, all_netsummaries, network_dict, visual_props,
                    score_map, node_vars, calls, steps >>

\* while len(net_summaries) == 10000: extend and query again
MoreSummaries ==
    /\ pc = "check_while"
    /\ SummaryCount(net_summaries) = PAGE_LIMIT
    /\ requests < MaxRequests
    /\ \E ok \in BOOLEAN :
          IF ok
          THEN /\ all_netsummaries' = Extend(all_netsummaries, net_summaries)
               /\ net_summaries' = GetUserNetworkSummaries(user_networks, PAGE_LIMIT)
               /\ requests' = requests + 1
               /\ pc' = "check_while"
               /\ UNCHANGED exception
          ELSE /\ Raise("remote call")
               /\ all_netsummaries' = Extend(all_netsummaries, net_summaries)
               /\ UNCHANGED << net_summaries, requests >>
    /\ UNCHANGED << entry, exit_code, inputs, tempdir_exists, loader,
                    hierarchy, network_dict, visual_props, score_map, node_vars,
                    calls, steps >>

\* after the loop: extend with the last page, fill network_dict, return it
ReturnNetworkDict ==
    /\ pc = "check_while"
    /\ SummaryCount(net_summaries) # PAGE_LIMIT
    /\ all_netsummaries' = Extend(all_netsummaries, net_summaries)
    /\ network_dict' = FillNetworkDict(EmptyDict, all_netsummaries'.listed, 1,
                                       loader.user, FALSE)
    /\ pc' = ReturnPc("get_style_from_network")
    /\ UNCHANGED << entry, exit_code, exception, inputs, tempdir_exists, loader,
                    hierarchy, net_summaries, requests, visual_props, score_map,
                    node_vars, calls, steps >>

\* visual_props = self.get_style_from_network(): the style.cx2 of the package
GetStyleFromNetwork ==
    /\ pc = "get_style_from_network"
    /\ visual_props' = "style.cx2"
    /\ pc' = "get_ias_score_map"
    /\ UNCHANGED << entry, exit_code, exception, inputs, tempdir_exists, loader,
                    hierarchy, index_vars, score_map, node_vars, calls, steps >>

----------------------------------------------------------------------------
(* NDExNeSTLoader._get_ias_score_map and _download_ias_score *)

\* if self._tempdir is None: tempdir = tempfile.mkdtemp()
MakeTempDir ==
    /\ pc = "get_ias_score_map"
    /\ tempdir_exists' = (loader.tempdir = "None")
    /\ pc' = "download_ias_score"
    /\ UNCHANGED << entry, exit_code, exception, inputs, loader, hierarchy,
                    index_vars, visual_props, score_map, node_vars, calls, steps >>

\* ias_score_file = self._download_ias_score(tempdir): a file on disk is used
\* as it is; a download raises on a non-success status
DownloadIasScore ==
    /\ pc = "download_ias_score"
    /\ \E ok \in BOOLEAN :
          IF ias_source.local \/ ok
          THEN pc' = "read_ias_score" /\ UNCHANGED exception
          ELSE pc' = "ias_finally" /\ exception' = "download"
    /\ UNCHANGED << entry, exit_code, inputs, tempdir_exists, loader, hierarchy,
                    index_vars, visual_props, score_map, node_vars, calls, steps >>

\* the loop over csv.DictReader(f, delimiter='\t')
ReadIasScore ==
    /\ pc = "read_ias_score"
    /\ LET r == ParseScoreRows(ias_source.rows)
       IN IF r.raised
          THEN exception' = "data" /\ UNCHANGED score_map
          ELSE score_map' = r.score_map /\ UNCHANGED exception
    /\ pc' = "ias_finally"
    /\ UNCHANGED << entry, exit_code, inputs, tempdir_exists, loader, hierarchy,
                    index_vars, visual_props, node_vars, calls, steps >>

\* Mutant: the directory is removed after the return, not in a finally block.
RemovesTempDirUnlessRaised(ldr) == ldr.tempdir = "None" /\ exception = "None"

\* finally: if self._tempdir is None: shutil.rmtree(tempdir)
RemovesTempDir(ldr) == ldr.tempdir = "None"

IasFinally ==
    /\ pc = "ias_finally"
    /\ tempdir_exists' = IF RemovesTempDir(loader) THEN FALSE ELSE tempdir_exists
    /\ pc' = IF exception # "None" THEN RaisedPc ELSE ReturnPc("for_node")
    /\ UNCHANGED << entry, exit_code, exception, inputs, loader, hierarchy, index_vars,
                    visual_props, score_map, node_vars, calls, steps >>

----------------------------------------------------------------------------
(* NDExNeSTLoader.run: the loop over hierarchy.get_nodes().items() *)

\* Why run skips the node, or "none".
\* Mutant: the size check is >= instead of >.
SkipReasonAtMaxsize(ldr, node_name, genes) ==
    IF node_name = None THEN "no name"
    ELSE IF StartsWith(node_name, <<"N", "E", "S", "T", ":">>) THEN "lacks a name"
    ELSE IF Len(genes) >= ldr.maxsize THEN "exceeds maxsize"
    ELSE "none"

SkipReason(ldr, node_name, genes) ==
    IF node_name = None THEN "no name"
    ELSE IF StartsWith(node_name, NEST_PREFIX) THEN "lacks a name"
    ELSE IF Len(genes) > ldr.maxsize THEN "exceeds maxsize"
    ELSE "none"

Step(i, what, reason) == [node |-> i, step |-> what, skipped |-> reason]

\* name, gene_list = self.get_name_and_genes_from_node(node[1]) and the
\* checks that end in continue
SkipCheck ==
    /\ pc = "for_node"
    /\ idx <= Len(hierarchy)
    /\ LET r == GetNameAndGenesFromNode(hierarchy[idx])
           reason == SkipReason(loader, r.name, r.gene_list)
       IN /\ name' = r.name
          /\ gene_list' = r.gene_list
          /\ steps' = Append(steps, Step(idx, "skip-check", reason))
          /\ IF reason = "none"
             THEN pc' = "create_network" /\ UNCHANGED idx
             ELSE pc' = "for_node" /\ idx' = idx + 1
    /\ UNCHANGED << entry, exit_code, exception, inputs, tempdir_exists, loader,
                    hierarchy, index_vars, visual_props, score_map,
                    sub_network, net_attrs, calls >>

\* Mutant: the edge attributes are made by deleting the two protein keys
\* from the row of the table itself.
CreateNetworkStripsRows ==
    /\ pc = "create_network"
    /\ sub_network' = CreateNetworkFromGeneList(gene_list, score_map)
    /\ net_attrs' = sub_network'.attrs
    /\ score_map' =
          [a \in DOMAIN score_map |->
              [b \in DOMAIN score_map[a] |->
                  IF /\ \E i \in DOMAIN gene_list : gene_list[i] = a
                     /\ \E i \in DOMAIN gene_list : gene_list[i] = b
                  THEN GetScoreMapEdgeAttributes(score_map[a][b])
                  ELSE score_map[a][b]]]
    /\ steps' = Append(steps, Step(idx, "build", "none"))
    /\ pc' = "update_network_attributes"
    /\ UNCHANGED << entry, exit_code, exception, inputs, tempdir_exists, loader,
                    hierarchy, index_vars, visual_props,
                    idx, name, gene_list, calls >>

\* Mutant: net_attrs is not taken from the new network but kept from the
\* node before.
CreateNetworkKeepsAttributes ==
    /\ pc = "create_network"
    /\ sub_network' = CreateNetworkFromGeneList(gene_list, score_map)
    /\ steps' = Append(steps, Step(idx, "build", "none"))
    /\ pc' = "update_network_attributes"
    /\ UNCHANGED << entry, exit_code, exception, inputs, tempdir_exists, loader,
                    hierarchy, index_vars, visual_props, score_map,
                    idx, name, gene_list, net_attrs, calls >>

\* sub_network = self._create_network_from_gene_list(gene_list, score_map=score_map)
\* net_attrs = sub_network.get_network_attributes()
CreateNetwork ==
    /\ pc = "create_network"
    /\ sub_network' = CreateNetworkFromGeneList(gene_list, score_map)
    /\ net_attrs' = sub_network'.attrs
    /\ steps' = Append(steps, Step(idx, "build", "none"))
    /\ pc' = "update_network_attributes"
    /\ UNCHANGED << entry, exit_code, exception, inputs, tempdir_exists, loader,
                    hierarchy, index_vars, visual_props, score_map,
                    idx, name, gene_list, calls >>

\* Mutant: the network is saved without the visual properties being set.
MergeAttributesThenPublish ==
    /\ pc = "update_network_attributes"
    /\ net_attrs' = AddAssemblyAttributesAsNetAttributes(
                        hierarchy[idx], UpdateNetworkAttributes(loader, name, net_attrs))
    /\ sub_network' = [sub_network EXCEPT !.attrs = net_attrs']
    /\ steps' = Append(steps, Step(idx, "attribute-merge", "none"))
    /\ pc' = "save_update_network"
    /\ UNCHANGED << entry, exit_code, exception, inputs, tempdir_exists, loader,
                    hierarchy, index_vars, visual_props, score_map,
                    idx, name, gene_list, calls >>

\* self._update_network_attributes(name=name, net_attrs=net_attrs)
\* self._add_assembly_attributes_as_net_attributes(node[1], net_attrs=net_attrs)
\* sub_network.set_network_attributes(net_attrs)
MergeAttributes ==
    /\ pc = "update_network_attributes"
    /\ net_attrs' = AddAssemblyAttributesAsNetAttributes(
                        hierarchy[idx], UpdateNetworkAttributes(loader, name, net_attrs))
    /\ sub_network' = [sub_network EXCEPT !.attrs = net_attrs']
    /\ steps' = Append(steps, Step(idx, "attribute-merge", "none"))
    /\ pc' = "set_visual_properties"
    /\ UNCHANGED << entry, exit_code, exception, inputs, tempdir_exists, loader,
                    hierarchy, index_vars, visual_props, score_map,
                    idx, name, gene_list, calls >>

\* sub_network.set_visual_properties(visual_props)
SetVisualProperties ==
    /\ pc = "set_visual_properties"
    /\ sub_network' = [sub_network EXCEPT !.visual = visual_props]
    /\ steps' = Append(steps, Step(idx, "style-apply", "none"))
    /\ pc' = "save_update_network"
    /\ UNCHANGED << entry, exit_code, exception, inputs, tempdir_exists, loader,
                    hierarchy, index_vars, visual_props, score_map,
                    idx, name, gene_list, net_attrs, calls >>

\* self._save_update_network(net_attrs=net_attrs, network_dict=network_dict,
\*                           sub_network=sub_network)
\* A call on the client may raise; a call is recorded with the position of
\* its node and whether it succeeded.
Made(call, i, ok) ==
    [op |-> call.op, target |-> call.target, visibility |-> call.visibility,
     name |-> call.name, net |-> call.net, node |-> i, ok |-> ok]

\* Mutant: a failed call is logged and the loop goes on with the next node.
PublishSwallowsFailure ==
    /\ pc = "save_update_network"
    /\ steps' = Append(steps, Step(idx, "publish", "none"))
    /\ LET cs == SaveUpdateNetwork(loader, net_attrs, network_dict, sub_network)
       IN IF cs = << >>
          THEN UNCHANGED calls
          ELSE \E ok \in BOOLEAN : calls' = Append(calls, Made(cs[1], idx, ok))
    /\ idx' = idx + 1
    /\ pc' = "for_node"
    /\ UNCHANGED << entry, exit_code, exception, inputs, tempdir_exists, loader,
                    hierarchy, index_vars, visual_props, score_map,
                    name, gene_list, sub_network, net_attrs >>

Publish ==
    /\ pc = "save_update_network"
    /\ steps' = Append(steps, Step(idx, "publish", "none"))
    /\ LET cs == SaveUpdateNetwork(loader, net_attrs, network_dict, sub_network)
       IN IF cs = << >>
          THEN /\ UNCHANGED << calls, exception >>
               /\ idx' = idx + 1
               /\ pc' = "for_node"
          ELSE \E ok \in BOOLEAN :
                  /\ calls' = Append(calls, Made(cs[1], idx, ok))
                  /\ IF ok THEN /\ idx' = idx + 1
                                 /\ pc' = "for_node"
                                 /\ UNCHANGED exception
                     ELSE UNCHANGED idx /\ Raise("remote call")
    /\ UNCHANGED << entry, exit_code, inputs, tempdir_exists, loader,
                    hierarchy, index_vars, visual_props, score_map,
                    name, gene_list, sub_network, net_attrs >>

\* return 0, which main returns
RunReturn ==
    /\ pc = "for_node"
    /\ idx > Len(hierarchy)
    /\ exit_code' = EXIT_OK
    /\ pc' = "done"
    /\ UNCHANGED << entry, exception, inputs, tempdir_exists, loader,
                    hierarchy, index_vars, visual_props, score_map, node_vars,
                    calls, steps >>

----------------------------------------------------------------------------
(* The program run from main *)

Next ==
    \/ SetupLogging
    \/ Construct
    \/ ParseConfig
    \/ CreateNdexConnection
    \/ GetNetworkFromNdex
    \/ FirstSummaries
    \/ MoreSummaries
    \/ ReturnNetworkDict
    \/ GetStyleFromNetwork
    \/ MakeTempDir
    \/ DownloadIasScore
    \/ ReadIasScore
    \/ IasFinally
    \/ SkipCheck
    \/ CreateNetwork
    \/ MergeAttributes
    \/ SetVisualProperties
    \/ Publish
    \/ RunReturn
    \/ MainExcept

Spec == Init /\ [][Next]_vars

----------------------------------------------------------------------------
(* _get_ias_score_map called on its own, as the tests call it: every file   *)
(* of up to MaxRows rows under one of three headers.  The column 'Comment'  *)
(* is no float column although its text reads as a number.                  *)

MaxRows == 2

Headers == {{PROTEIN_ONE, PROTEIN_TWO, "Integrated score"},
            {PROTEIN_ONE, PROTEIN_TWO, "Integrated score", "Comment"},
            {PROTEIN_ONE, "Integrated score"}}

ColumnTexts(column) ==
    CASE column = PROTEIN_ONE -> {A1BG, A1CF}
      [] column = PROTEIN_TWO -> {A1BG, A1CF, ABCB4}
      [] column = "Integrated score" -> {<< ".", "5" >>, << "0", ".", "5", "0" >>,
                                         << "1" >>, << "n", "a" >>}
      [] column = "Comment" -> {<< "1" >>}

RowsWith(header) ==
    {row \in [header -> {Str(s) : s \in UNION {ColumnTexts(c) : c \in header}}] :
        \A c \in header : row[c].str \in ColumnTexts(c)}

ScoreFiles == UNION {SeqsUpTo(RowsWith(header), MaxRows) : header \in Headers}

InitScore ==
    /\ entry = "_get_ias_score_map"
    /\ pc = "get_ias_score_map"
    /\ args \in [logconf : {"None"}, conf : {"good"}, dryrun : {FALSE},
                 maxsize : {3}, visibility : {"PUBLIC"},
                 tempdir : {"None", "/tmp/given"}, nest : {"9a8f5326"}]
    /\ nest_network = << >>
    /\ user_networks = NoSummaries
    /\ ias_source \in [local : BOOLEAN, rows : ScoreFiles]
    /\ loader = [NoLoader EXCEPT !.tempdir = args.tempdir]
    /\ score_map = EmptyDict
    /\ gene_list = None
    /\ Blank

NextScore ==
    \/ MakeTempDir
    \/ DownloadIasScore
    \/ ReadIasScore
    \/ IasFinally

SpecScore == InitScore /\ [][NextScore]_vars

----------------------------------------------------------------------------
(* _create_network_from_gene_list called on its own: every gene list of up  *)
(* to MaxGenes symbols, and every score table read from a file of up to     *)
(* MaxRows rows, with and without the column 'Comment'.                     *)

MaxGenes == 3

GenePool == {A1BG, A1CF, ABCB4, GeneX}

GeneLists == SeqsUpTo(GenePool, MaxGenes)

\* The files the tables are read from: one score text is enough here.
TableFiles ==
    UNION {SeqsUpTo({row \in RowsWith(header) :
                        row["Integrated score"].str = << ".", "5" >>}, MaxRows) :
           header \in Headers}

ScoreTables ==
    {ParseScoreRows(rows).score_map :
        rows \in {f \in TableFiles : ~ParseScoreRows(f).raised}}

InitNet ==
    /\ entry = "_create_network_from_gene_list"
    /\ pc = "create_network"
    /\ args \in [logconf : {"None"}, conf : {"good"}, dryrun : {FALSE},
                 maxsize : {3}, visibility : {"PUBLIC"},
                 tempdir : {"None"}, nest : {"9a8f5326"}]
    /\ nest_network = << >>
    /\ user_networks = NoSummaries
    /\ ias_source = [local |-> TRUE, rows |-> << >>]
    /\ loader = NoLoader
    /\ gene_list \in GeneLists
    /\ score_map \in ScoreTables
    /\ Blank

\* net = self._create_network_from_gene_list(gene_list, score_map=score_map)
CallCreateNetwork ==
    /\ pc = "create_network"
    /\ entry = "_create_network_from_gene_list"
    /\ sub_network' = CreateNetworkFromGeneList(gene_list, score_map)
    /\ pc' = "returned"
    /\ UNCHANGED << entry, exit_code, exception, inputs, tempdir_exists,
                    loader, hierarchy, index_vars, visual_props, score_map,
                    idx, name, gene_list, net_attrs, calls, steps >>

NextNet == CallCreateNetwork

SpecNet == InitNet /\ [][NextNet]_vars

----------------------------------------------------------------------------
(* Properties of a run from main (Spec) *)

\* The node at position i carries a name run can use: 'v', 'Genes' and
\* 'Annotation' are there.
HasName(i) ==
    /\ "v" \in DOMAIN hierarchy[i]
    /\ "Genes" \in DOMAIN hierarchy[i]["v"]
    /\ "Annotation" \in DOMAIN hierarchy[i]["v"]

RawName(i) == hierarchy[i]["v"]["Annotation"]

\* Number of pieces of the 'Genes' text: one more than its spaces.
GeneCount(i) ==
    LET g == hierarchy[i]["v"]["Genes"]
    IN Cardinality({k \in 1..Len(g) : g[k] = " "}) + 1

CallsFor(i) == {j \in DOMAIN calls : calls[j].node = i}

\* C1: with dry-run off, every publish makes exactly one call on the client:
\* when the name of the network is a key of the index, update_cx2_network
\* with the identifier the index maps the name to; otherwise
\* save_new_cx2_network with the configured visibility.
C1_UpdateIfIndexedElseCreate ==
    ~args.dryrun =>
        /\ \A k \in DOMAIN steps :
              steps[k].step = "publish" => Cardinality(CallsFor(steps[k].node)) = 1
        /\ \A j \in DOMAIN calls :
              LET c == calls[j]
                  nm == c.net.attrs["name"]
              IN IF nm \in DOMAIN network_dict
                 THEN /\ c.op = "update_cx2_network"
                      /\ c.target = network_dict[nm]
                 ELSE /\ c.op = "save_new_cx2_network"
                      /\ c.visibility = args.visibility

C1_Witness ==
    /\ ~args.dryrun
    /\ args.visibility = "PRIVATE"
    /\ \E j1, j2 \in DOMAIN calls :
          /\ calls[j1].op = "update_cx2_network"
          /\ calls[j1].target = "u2"
          /\ calls[j2].op = "save_new_cx2_network"

\* C2: under dry-run no write call is made on the client, whether or not the
\* name of a published network is in the index.
C2_DryRunMakesNoWriteCall == args.dryrun => calls = << >>

C2_Witness ==
    /\ args.dryrun
    /\ pc = "done"
    /\ exit_code = 0
    /\ \E k1, k2 \in DOMAIN steps :
          /\ steps[k1].step = "publish"
          /\ steps[k2].step = "publish"
          /\ RawName(steps[k1].node) \in DOMAIN network_dict
          /\ RawName(steps[k2].node) \notin DOMAIN network_dict

\* C3 as claimed: a run never issues two create calls for the same name.
C3_NoTwoCreatesForOneName ==
    \A j1, j2 \in DOMAIN calls :
        (/\ j1 < j2
         /\ calls[j1].op = "save_new_cx2_network"
         /\ calls[j2].op = "save_new_cx2_network")
        => calls[j1].name # calls[j2].name

\* The named networks of the user that the server lists one by one.
OwnNames ==
    {ns["name"] : ns \in {s \in {user_networks.before[i] : i \in DOMAIN user_networks.before}
                                 \cup {user_networks.after[i] : i \in DOMAIN user_networks.after} :
                           "name" \in DOMAIN s /\ s["owner"] = USER}}

\* C3 as amended: a create is only issued for a name that is neither a key of
\* the index built before the loop nor the name of a network the user had on
\* the server at the start, and each hierarchy node gets at most one write
\* call; the index is not extended during the run, so two nodes with one new
\* name get a create each.
C3_CreateOnlyForNamesNotIndexed ==
    /\ \A j \in DOMAIN calls :
          calls[j].op = "save_new_cx2_network" =>
              /\ calls[j].name \notin DOMAIN network_dict
              /\ calls[j].name \notin OwnNames
    /\ \A j1, j2 \in DOMAIN calls : j1 < j2 => calls[j1].node < calls[j2].node

C3_Witness ==
    \E j1, j2 \in DOMAIN calls :
        /\ j1 < j2
        /\ calls[j1].op = "save_new_cx2_network"
        /\ calls[j2].op = "save_new_cx2_network"
        /\ calls[j1].name = calls[j2].name
        /\ calls[j1].ok

\* C4: a named node with more genes than maxsize is skipped at the skip
\* check, and no later step or write call is made for it; a node with
\* exactly maxsize genes passes the check.
C4_SkipOnlyAboveMaxsize ==
    /\ \A k \in DOMAIN steps :
          LET s == steps[k]
          IN IF s.step = "skip-check"
             THEN (HasName(s.node) /\ ~StartsWith(RawName(s.node), NEST_PREFIX)) =>
                     /\ GeneCount(s.node) > args.maxsize => s.skipped = "exceeds maxsize"
                     /\ GeneCount(s.node) <= args.maxsize => s.skipped = "none"
             ELSE GeneCount(s.node) <= args.maxsize
    /\ \A j \in DOMAIN calls : GeneCount(calls[j].node) <= args.maxsize

C4_Witness ==
    \E k1, k2 \in DOMAIN steps :
        /\ steps[k1].step = "skip-check"
        /\ steps[k1].skipped = "exceeds maxsize"
        /\ GeneCount(steps[k1].node) = args.maxsize + 1
        /\ steps[k2].step = "publish"
        /\ GeneCount(steps[k2].node) = args.maxsize

IsProperSuffix(s, whole) ==
    /\ Len(whole) > Len(s)
    /\ SubSeq(whole, Len(whole) - Len(s) + 1, Len(whole)) = s

\* C9 as claimed: a node named 'NEST:...' goes on to be published (under a
\* rewritten name), and a node with another name is published under that
\* name with a prefix put before it.
C9_NamesAreNormalized ==
    /\ \A k \in DOMAIN steps :
          (/\ steps[k].step = "skip-check"
           /\ HasName(steps[k].node)
           /\ StartsWith(RawName(steps[k].node), NEST_PREFIX)
           /\ GeneCount(steps[k].node) <= args.maxsize)
          => steps[k].skipped = "none"
    /\ \A j \in DOMAIN calls :
          ~StartsWith(RawName(calls[j].node), NEST_PREFIX)
          => IsProperSuffix(RawName(calls[j].node), calls[j].net.attrs["name"])

\* C9 as amended: a node whose name starts with 'NEST:' is skipped, with no
\* later step and no write call; every other node that is published is
\* published under its name as it is, without a prefix.
C9_NestSkippedOthersKeepName ==
    /\ \A k \in DOMAIN steps :
          (HasName(steps[k].node) /\ StartsWith(RawName(steps[k].node), NEST_PREFIX))
          => /\ steps[k].step = "skip-check"
             /\ steps[k].skipped = "lacks a name"
             /\ CallsFor(steps[k].node) = {}
    /\ \A j \in DOMAIN calls :
          /\ calls[j].net.attrs["name"] = RawName(calls[j].node)
          /\ calls[j].name = RawName(calls[j].node)
    /\ pc \in {"set_visual_properties", "save_update_network"} =>
          /\ sub_network.attrs["name"] = RawName(idx)
          /\ net_attrs["name"] = RawName(idx)

C9_Witness ==
    /\ \E k \in DOMAIN steps :
          /\ steps[k].skipped = "lacks a name"
          /\ GeneCount(steps[k].node) <= args.maxsize
    /\ \E j \in DOMAIN calls :
          /\ calls[j].name = NameB
          /\ hierarchy[calls[j].node]["v"]["name"] = << "other" >>

\* C10: main returns 0 when setup and run went through without an
\* exception and 2 when one was raised; no exception leaves main.
C10_MainReturnsZeroOrTwo ==
    /\ pc # "raised"
    /\ exception # "None" => pc \in {"ias_finally", "except", "done"}
    /\ pc = "done" => exit_code = (IF exception = "None" THEN 0 ELSE 2)
    /\ (pc = "done" /\ exception = "None") => idx > Len(hierarchy)
    /\ pc # "done" => exit_code = -1

C10_Witness ==
    /\ pc = "done"
    /\ exit_code = 2
    /\ exception = "remote call"
    /\ calls # << >>
    /\ ~calls[Len(calls)].ok

----------------------------------------------------------------------------
(* Properties of _create_network_from_gene_list (SpecNet) *)

InGeneList(g) == \E i \in DOMAIN gene_list : gene_list[i] = g

NodesNamed(net, g) == {i \in DOMAIN net.nodes : net.nodes[i]["name"] = g}

\* The gene is a key of the table at neither level.
AbsentFromTable(g) ==
    /\ g \notin DOMAIN score_map
    /\ \A a \in DOMAIN score_map : g \notin DOMAIN score_map[a]

\* Gene symbol of the node with identifier id.
NodeGene(net, id) == net.nodes[id + 1]["name"]

\* C5: the network returned has exactly one node for every gene of the gene
\* list that is a first-level key of the table, also when the gene comes
\* more than once in the list, and no node for a gene of the list that the
\* table does not hold.
C5_OneNodePerKeyedGene ==
    pc = "returned" =>
        \A g \in GenePool :
            /\ (InGeneList(g) /\ g \in DOMAIN score_map)
                   => Cardinality(NodesNamed(sub_network, g)) = 1
            /\ (InGeneList(g) /\ AbsentFromTable(g))
                   => NodesNamed(sub_network, g) = {}

C5_Witness ==
    /\ pc = "returned"
    /\ \E i, j \in DOMAIN gene_list :
          /\ i # j
          /\ gene_list[i] = gene_list[j]
          /\ gene_list[i] \in DOMAIN score_map
          /\ Cardinality(NodesNamed(sub_network, gene_list[i])) = 1
    /\ \E i \in DOMAIN gene_list :
          /\ AbsentFromTable(gene_list[i])
          /\ NodesNamed(sub_network, gene_list[i]) = {}

\* The input of the example: gene list [A1BG, A1CF, X] and a table with
\* exactly the entries A1BG->ABCB4 and A1BG->A1CF.
ExampleInput ==
    /\ gene_list = << A1BG, A1CF, GeneX >>
    /\ DOMAIN score_map = {A1BG}
    /\ DOMAIN score_map[A1BG] = {ABCB4, A1CF}

NodeGenes(net) == {net.nodes[i]["name"] : i \in DOMAIN net.nodes}

\* C6 as claimed: on the example the network has the nodes A1BG, ABCB4 and
\* A1CF and two edges, both from A1BG.
C6_ExampleThreeNodesTwoEdges ==
    (pc = "returned" /\ ExampleInput) =>
        /\ NodeGenes(sub_network) = {A1BG, ABCB4, A1CF}
        /\ Len(sub_network.edges) = 2
        /\ \A k \in DOMAIN sub_network.edges :
              NodeGene(sub_network, sub_network.edges[k].s) = A1BG

\* C6 as amended: on the example the network has the two nodes A1BG and A1CF
\* (none for ABCB4, which is not in the gene list, and none for X) and one
\* edge, from A1BG to A1CF.
C6_ExampleTwoNodesOneEdge ==
    (pc = "returned" /\ ExampleInput) =>
        /\ NodeGenes(sub_network) = {A1BG, A1CF}
        /\ Len(sub_network.nodes) = 2
        /\ Len(sub_network.edges) = 1
        /\ NodeGene(sub_network, sub_network.edges[1].s) = A1BG
        /\ NodeGene(sub_network, sub_network.edges[1].t) = A1CF

C6_Witness == pc = "returned" /\ ExampleInput /\ sub_network.edges # << >>

\* C7: the attributes of an edge from gene a to gene b are the row of the
\* table for (a, b) without the keys 'Protein 1' and 'Protein 2': the same
\* other keys with the same values; of an empty row, or of a row with the
\* two protein keys alone, they are the empty map.
C7_EdgeAttributesAreRowWithoutProteins ==
    /\ pc = "returned" =>
          \A k \in DOMAIN sub_network.edges :
              LET e == sub_network.edges[k]
                  row == score_map[NodeGene(sub_network, e.s)][NodeGene(sub_network, e.t)]
              IN /\ DOMAIN e.v = {c \in DOMAIN row : c # "Protein 1" /\ c # "Protein 2"}
                 /\ \A c \in DOMAIN e.v : e.v[c] = row[c]
    /\ DOMAIN GetScoreMapEdgeAttributes(EmptyDict) = {}
    /\ DOMAIN GetScoreMapEdgeAttributes(
          ("Protein 1" :> Str(<< "f", "o", "o" >>)) @@ ("Protein 2" :> Str(<< "b" >>))) = {}

C7_Witness ==
    /\ pc = "returned"
    /\ \E k \in DOMAIN sub_network.edges :
          /\ DOMAIN sub_network.edges[k].v = {"Integrated score", "Comment"}
          /\ sub_network.edges[k].v["Integrated score"].kind = "float"
          /\ sub_network.edges[k].v["Comment"].kind = "str"

----------------------------------------------------------------------------
(* Properties of _get_ias_score_map (SpecScore) *)

FloatColumns == {"Integrated score", "evidence: Protein co-expression",
                 "evidence: Co-dependence", "evidence: Sequence similarity",
                 "evidence: Physical", "evidence: mRNA co-expression"}

\* The numbers the texts of the files stand for.
NumberOf(text) ==
    CASE text = << ".", "5" >> -> [kind |-> "float", str |-> << >>, int |-> 0, frac |-> << "5" >>]
      [] text = << "0", ".", "5", "0" >> -> [kind |-> "float", str |-> << >>, int |-> 0, frac |-> << "5" >>]
      [] text = << "1" >> -> [kind |-> "float", str |-> << >>, int |-> 1, frac |-> << >>]

\* The row as the table is to hold it: all its columns, the float columns as
\* numbers and the others as the str read.
AsStored(row) ==
    [c \in DOMAIN row |-> IF c \in FloatColumns THEN NumberOf(row[c].str) ELSE row[c]]

PairOf(row) == << row["Protein 1"].str, row["Protein 2"].str >>

FileRows == ias_source.rows

IsLastOfPair(i) ==
    \A j \in DOMAIN FileRows : j > i => PairOf(FileRows[j]) # PairOf(FileRows[i])

\* Only pairs of rows of the file are keys.
KeysComeFromRows ==
    \A a \in DOMAIN score_map : \A b \in DOMAIN score_map[a] :
        \E i \in DOMAIN FileRows : PairOf(FileRows[i]) = << a, b >>

\* C8 as claimed: for every row of the file the map returned holds, under
\* the row's two proteins, that row with its float columns as numbers and
\* its other columns as read; only pairs of rows are keys.
C8_EveryRowIsStored ==
    pc = "returned" =>
        /\ \A i \in DOMAIN FileRows :
              LET p == PairOf(FileRows[i])
              IN /\ p[1] \in DOMAIN score_map
                 /\ p[2] \in DOMAIN score_map[p[1]]
                 /\ score_map[p[1]][p[2]] = AsStored(FileRows[i])
        /\ KeysComeFromRows

\* C8 as amended: when the function returns, the map holds under every pair
\* of proteins of the file the last row with that pair (a later row with the
\* same pair replaces an earlier one), with its float columns as numbers and
\* its other columns as read; only pairs of rows are keys.
C8_LastRowOfPairIsStored ==
    pc = "returned" =>
        /\ \A i \in DOMAIN FileRows :
              LET p == PairOf(FileRows[i])
              IN /\ p[1] \in DOMAIN score_map
                 /\ p[2] \in DOMAIN score_map[p[1]]
                 /\ IsLastOfPair(i) => score_map[p[1]][p[2]] = AsStored(FileRows[i])
        /\ KeysComeFromRows

C8_Witness ==
    /\ pc = "returned"
    /\ Len(FileRows) = 2
    /\ "Comment" \in DOMAIN FileRows[1]
    /\ PairOf(FileRows[1]) = << A1BG, ABCB4 >>
    /\ PairOf(FileRows[2]) = << A1BG, ABCB4 >>
    /\ AsStored(FileRows[1]) # AsStored(FileRows[2])
    /\ score_map[A1BG][ABCB4] = AsStored(FileRows[2])

----------------------------------------------------------------------------
(* Failures and cleanup *)

WriteOps == {"update_cx2_network", "save_new_cx2_network"}

\* C11: when a create or update call fails for a hierarchy node, that call
\* is the last call of the run: it is not made again, no call is made for a
\* later node and no step of a later node is taken, the calls made for the
\* nodes before it stay as they are with no delete or rollback call after
\* them, and main returns 2.
C11_FailedCallEndsRun ==
    \A j \in DOMAIN calls :
        ~calls[j].ok =>
            /\ j = Len(calls)
            /\ \A i \in 1..(j - 1) : calls[i].ok /\ calls[i].node < calls[j].node
            /\ \A i \in DOMAIN calls : calls[i].op \in WriteOps
            /\ steps[Len(steps)] = Step(calls[j].node, "publish", "none")
            /\ idx = calls[j].node
            /\ exception = "remote call"
            /\ pc \in {"except", "done"}
            /\ pc = "done" => exit_code = EXIT_ERROR

C11_Witness ==
    /\ pc = "done"
    /\ exit_code = EXIT_ERROR
    /\ Len(hierarchy) = 2
    /\ Len(calls) = 1
    /\ calls[1].node = 1
    /\ ~calls[1].ok
    /\ SkipReason(loader, GetNameAndGenesFromNode(hierarchy[2]).name,
                  GetNameAndGenesFromNode(hierarchy[2]).gene_list) = "none"

\* C12: when no --tempdir is given, the directory _get_ias_score_map made is
\* gone once the method has returned or raised: after a download that
\* failed, a row without a column, a score that is no number, and after
\* success.
C12_TempDirRemovedOnEveryExit ==
    (pc \in {"returned", "raised"} /\ args.tempdir = "None") =>
        /\ ~tempdir_exists
        /\ pc = "raised" <=> exception # "None"

C12_Witness ==
    /\ pc = "raised"
    /\ exception = "data"
    /\ args.tempdir = "None"
    /\ ~ias_source.local
    /\ ~tempdir_exists

----------------------------------------------------------------------------
(* The index of existing networks *)

\* The summaries of the user's networks that the server lists one by one and
\* that carry a name and the user as owner.
OwnSummaries ==
    {s \in {user_networks.before[i] : i \in DOMAIN user_networks.before}
              \cup {user_networks.after[i] : i \in DOMAIN user_networks.after} :
        "name" \in DOMAIN s /\ s["owner"] = USER}

\* Number of summaries check_for_existing_networks holds: the pages it has
\* put together and the page it has just been given.
Gathered ==
    Len(all_netsummaries.listed) + all_netsummaries.others
        + SummaryCount(net_summaries)

\* C13 as claimed: for every number of networks the user has, one full page
\* or more included, the pages gathered are networks of the user, none
\* twice, and the index returned maps the name of every named network the
\* user owns to the identifier of that network and has no other key.
C13_IndexCoversUserNetworks ==
    /\ pc = "check_while" => Gathered <= SummaryCount(user_networks)
    /\ pc = "get_style_from_network" =>
          /\ \A s \in OwnSummaries :
                /\ s["name"] \in DOMAIN network_dict
                /\ network_dict[s["name"]] = s["externalId"]
          /\ \A k \in DOMAIN network_dict : \E s \in OwnSummaries : s["name"] = k

----------------------------------------------------------------------------
(* Nodes run cannot name *)

LastStep == steps[Len(steps)]

\* C14: for a node without 'v' or without 'Genes' the name and the gene list
\* are both None, for a node with 'Genes' and without 'Annotation' the name
\* is None and the gene list is the split 'Genes' text; run skips every such
\* node at the skip check without an exception, takes no later step and
\* makes no write call for it, and goes on with the node after it.
C14_NodesWithoutNameAreSkipped ==
    /\ \A k \in DOMAIN steps :
          LET i == steps[k].node
          IN ~HasName(i) =>
                /\ steps[k] = Step(i, "skip-check", "no name")
                /\ CallsFor(i) = {}
                /\ k < Len(steps) => steps[k + 1] = Step(i + 1, "skip-check",
                                                        steps[k + 1].skipped)
    /\ (steps # << >> /\ ~HasName(LastStep.node)) =>
          LET node == hierarchy[LastStep.node]
          IN /\ name = None
             /\ gene_list = IF "v" \in DOMAIN node /\ "Genes" \in DOMAIN node["v"]
                            THEN Split(node["v"]["Genes"]) ELSE None
             /\ exception = "None"
             /\ idx = LastStep.node + 1
             /\ pc \in {"for_node", "done"}
             /\ pc = "done" => exit_code = EXIT_OK

C14_Witness ==
    /\ Len(hierarchy) = 2
    /\ "v" \in DOMAIN hierarchy[1]
    /\ "Genes" \in DOMAIN hierarchy[1]["v"]
    /\ "Annotation" \notin DOMAIN hierarchy[1]["v"]
    /\ "v" \notin DOMAIN hierarchy[2]
    /\ steps = << Step(1, "skip-check", "no name"), Step(2, "skip-check", "no name") >>
    /\ pc = "done"

----------------------------------------------------------------------------
(* Attributes of a published subnetwork *)

\* The attributes carry the fixed values of the loader and no 'Description'.
CarriesFixedAttributes(attrs) ==
    /\ {"description", "version", "reference",
         GENERATED_BY_ATTRIB, DERIVED_FROM_ATTRIB} \subseteq DOMAIN attrs
    /\ attrs["description"] = DESCRIPTION_TEXT
    /\ attrs["version"] = VERSION_TEXT
    /\ attrs["reference"] = REFERENCE_TEXT
    /\ attrs[GENERATED_BY_ATTRIB] = GENERATED_BY_TEXT
    /\ attrs[DERIVED_FROM_ATTRIB] = DerivedFromText(loader.server, loader.nest)
    /\ "Description" \notin DOMAIN attrs

----------------------------------------------------------------------------
(* Edges and size of the network _create_network_from_gene_list returns     *)
(* (SpecNet)                                                                *)

\* The table has an entry for the ordered pair (a, b).
HasEntry(a, b) == a \in DOMAIN score_map /\ b \in DOMAIN score_map[a]

\* The edges of the network from gene a to gene b.
EdgesBetween(net, a, b) ==
    {k \in DOMAIN net.edges :
        NodeGene(net, net.edges[k].s) = a /\ NodeGene(net, net.edges[k].t) = b}

\* C16 as claimed: for every gene list, duplicates included, the network
\* has exactly one edge from a to b for every ordered pair (a, b) of genes
\* of the list the table has an entry for, and no other edge.
C16_OneEdgePerOrderedPair ==
    pc = "returned" =>
        /\ \A a, b \in GenePool :
              IF InGeneList(a) /\ InGeneList(b) /\ HasEntry(a, b)
              THEN Cardinality(EdgesBetween(sub_network, a, b)) = 1
              ELSE EdgesBetween(sub_network, a, b) = {}
        /\ \A k \in DOMAIN sub_network.edges :
              /\ sub_network.edges[k].s \in 0..(Len(sub_network.nodes) - 1)
              /\ sub_network.edges[k].t \in 0..(Len(sub_network.nodes) - 1)
              /\ NodeGene(sub_network, sub_network.edges[k].s) \in GenePool
              /\ NodeGene(sub_network, sub_network.edges[k].t) \in GenePool

\* C17: for a gene list of length n the network has at most n nodes and at
\* most n*n edges, no two nodes carry the same gene symbol, and source and
\* target of every edge are identifiers of nodes of the network.
C17_SizeBoundedByGeneList ==
    pc = "returned" =>
        LET n == Len(gene_list)
            net == sub_network
        IN /\ Len(net.nodes) <= n
           /\ Len(net.edges) <= n * n
           /\ \A i, j \in DOMAIN net.nodes :
                 i # j => net.nodes[i]["name"] # net.nodes[j]["name"]
           /\ \A k \in DOMAIN net.edges :
                 /\ net.edges[k].s \in 0..(Len(net.nodes) - 1)
                 /\ net.edges[k].t \in 0..(Len(net.nodes) - 1)

\* The bound on the edges is met: a list of two genes with four edges.
C17_Witness ==
    /\ pc = "returned"
    /\ Len(gene_list) = 2
    /\ Len(sub_network.nodes) = 1
    /\ Len(sub_network.edges) = 4

----------------------------------------------------------------------------
(* Order of the steps of run (Spec) *)

\* Place of a step in the body of the loop.
StepRank(what) ==
    CASE what = "skip-check" -> 1
      [] what = "build" -> 2
      [] what = "attribute-merge" -> 3
      [] what = "style-apply" -> 4
      [] what = "publish" -> 5

\* The network carries the name of the node and the style of the run.
NamedAndStyled(net, i) ==
    /\ "name" \in DOMAIN net.attrs
    /\ net.attrs["name"] = RawName(i)
    /\ net.visual = "style.cx2"

\* C18: the steps of a run come node after node in the order of the
\* hierarchy and, for one node, in the order skip-check, build,
\* attribute-merge, style-apply, publish, each at most once and each right
\* after the one before it; a network is published only with its name and
\* the visual style set; the skip-check of a node comes right after the
\* skip or the publish of the node before it, whose write call, if it makes
\* one, has been made and has succeeded by then.
C18_StepsInPipelineOrder ==
    /\ \A k1, k2 \in DOMAIN steps :
          k1 < k2 =>
              \/ steps[k1].node < steps[k2].node
              \/ /\ steps[k1].node = steps[k2].node
                 /\ StepRank(steps[k1].step) < StepRank(steps[k2].step)
    /\ \A k \in DOMAIN steps :
          IF steps[k].step = "skip-check"
          THEN IF k = 1 THEN steps[k].node = 1
               ELSE /\ steps[k - 1].node = steps[k].node - 1
                    /\ \/ steps[k - 1].step = "publish"
                       \/ steps[k - 1].step = "skip-check" /\ steps[k - 1].skipped # "none"
                    /\ \A j \in CallsFor(steps[k - 1].node) : calls[j].ok
                    /\ (steps[k - 1].step = "publish" /\ ~args.dryrun)
                           => CallsFor(steps[k - 1].node) # {}
          ELSE /\ k > 1
               /\ steps[k - 1] = Step(steps[k].node,
                                      CHOOSE w \in {"skip-check", "build", "attribute-merge",
                                                    "style-apply"} :
                                          StepRank(w) = StepRank(steps[k].step) - 1,
                                      "none")
    /\ pc = "save_update_network" => NamedAndStyled(sub_network, idx)
    /\ \A j \in DOMAIN calls :
          /\ NamedAndStyled(calls[j].net, calls[j].node)
          /\ \E k \in DOMAIN steps : steps[k] = Step(calls[j].node, "publish", "none")

C18_Witness ==
    /\ pc = "done"
    /\ Len(calls) = 2
    /\ Len(steps) = 10
    /\ steps[5] = Step(1, "publish", "none")
    /\ steps[6] = Step(2, "skip-check", "none")

----------------------------------------------------------------------------
(* Independence of the order of the nodes (Spec) *)

\* The write calls for one node, from the node, the score table, the index
\* and the configuration of the run alone.
NodeCalls(node) ==
    LET r == GetNameAndGenesFromNode(node)
    IN IF SkipReason(loader, r.name, r.gene_list) # "none" THEN << >>
       ELSE LET built == CreateNetworkFromGeneList(r.gene_list, score_map)
                attrs == AddAssemblyAttributesAsNetAttributes(
                             node, UpdateNetworkAttributes(loader, r.name, built.attrs))
                net == [built EXCEPT !.attrs = attrs, !.visual = visual_props]
            IN SaveUpdateNetwork(loader, attrs, network_dict, net)

\* The write calls of a run over the nodes h, in order.
RECURSIVE CallsOver(_, _)
CallsOver(h, i) ==
    IF i > Len(h) THEN << >> ELSE NodeCalls(h[i]) \o CallsOver(h, i + 1)

\* A call made, without the position of its node.
PlainCall(c) ==
    [op |-> c.op, target |-> c.target, visibility |-> c.visibility,
     name |-> c.name, net |-> c.net]

CallsMade == [j \in DOMAIN calls |-> PlainCall(calls[j])]

CountIn(s, c) == Cardinality({k \in DOMAIN s : s[k] = c})

SameMultiset(s1, s2) ==
    /\ Len(s1) = Len(s2)
    /\ \A k \in DOMAIN s1 : CountIn(s1, s1[k]) = CountIn(s2, s1[k])

NodeOrders(n) ==
    {p \in [1..n -> 1..n] : \A i, j \in 1..n : i # j => p[i] # p[j]}

Permuted(h, p) == [i \in DOMAIN h |-> h[p[i]]]

\* C19: a run without a failure has made, for each node, the calls that
\* follow from that node, the score table and the index built before the
\* loop, and they are the same multiset of calls for every order of the
\* nodes of the hierarchy.
C19_CallsIndependentOfNodeOrder ==
    (pc = "done" /\ exception = "None") =>
        /\ \A j \in DOMAIN calls :
              << PlainCall(calls[j]) >> = NodeCalls(hierarchy[calls[j].node])
        /\ \A p \in NodeOrders(Len(hierarchy)) :
              SameMultiset(CallsMade, CallsOver(Permuted(hierarchy, p), 1))

C19_Witness ==
    /\ pc = "done"
    /\ exception = "None"
    /\ Len(hierarchy) = 2
    /\ Len(calls) = 2
    /\ calls[1].op = "save_new_cx2_network"
    /\ calls[2].op = "update_cx2_network"
    /\ CallsOver(Permuted(hierarchy, << 2, 1 >>), 1) = << CallsMade[2], CallsMade[1] >>

----------------------------------------------------------------------------
(* The inputs of the loop of run (Spec) *)

\* The loop over the nodes has been reached.
InLoop ==
    \/ pc \in {"for_node", "create_network", "update_network_attributes",
                "set_visual_properties", "save_update_network"}
    \/ pc \in {"except", "done"} /\ steps # << >>

\* C20: from the first node on and after the loop, the hierarchy is the one
\* loaded from the server, the score table is the one read from the file,
\* with 'Protein 1' and 'Protein 2' in every row, and the index is the one
\* check_for_existing_networks returned.
C20_InputsUnchangedByLoop ==
    InLoop =>
        /\ hierarchy = nest_network
        /\ score_map = ParseScoreRows(ias_source.rows).score_map
        /\ \A a \in DOMAIN score_map : \A b \in DOMAIN score_map[a] :
              /\ {PROTEIN_ONE, PROTEIN_TWO} \subseteq DOMAIN score_map[a][b]
              /\ score_map[a][b][PROTEIN_ONE] = Str(a)
              /\ score_map[a][b][PROTEIN_TWO] = Str(b)
        /\ network_dict = FillNetworkDict(EmptyDict, all_netsummaries.listed, 1,
                                          loader.user, FALSE)

C20_Witness ==
    /\ pc = "done"
    /\ exception = "None"
    /\ Len(calls) = 2
    /\ calls[1].net.edges # << >>
    /\ calls[2].op = "save_new_cx2_network"
    /\ "Weight" \in DOMAIN calls[1].net.attrs
    /\ "Weight" \in DOMAIN hierarchy[1]["v"]
    /\ hierarchy = nest_network

----------------------------------------------------------------------------
(* Termination of the paging loop (Spec) *)

\* Requests that read the user's networks page by page: the last page is
\* the first one that is not full.
PagesNeeded == (SummaryCount(user_networks) \div PAGE_LIMIT) + 1

\* C21 as claimed: for every number of networks of the user, a full first
\* page included, check_for_existing_networks makes no more requests than
\* the user's networks have pages, and the page of the last of these
\* requests is not full, so that the loop ends and the index is returned.
C21_PagingLoopTerminates ==
    /\ requests <= PagesNeeded
    /\ (pc = "check_while" /\ requests = PagesNeeded)
          => SummaryCount(net_summaries) # PAGE_LIMIT

----------------------------------------------------------------------------
(* Write calls per node (Spec) *)

\* The node at position i passes the skip checks of run.
Qualifies(i) ==
    /\ HasName(i)
    /\ ~StartsWith(RawName(i), NEST_PREFIX)
    /\ GeneCount(i) <= args.maxsize

\* C22: after a run with dry-run off and no failure, every node that passes
\* the skip checks has exactly one write call, a create or an update, also
\* when its network has no nodes and no edges, and every skipped node has
\* none.
C22_OneWriteCallPerQualifyingNode ==
    (pc = "done" /\ exception = "None" /\ ~args.dryrun) =>
        \A i \in DOMAIN hierarchy :
            IF Qualifies(i)
            THEN /\ Cardinality(CallsFor(i)) = 1
                 /\ \A j \in CallsFor(i) : calls[j].op \in WriteOps /\ calls[j].ok
            ELSE CallsFor(i) = {}

C22_Witness ==
    /\ pc = "done"
    /\ exception = "None"
    /\ ~args.dryrun
    /\ Len(hierarchy) = 2
    /\ ~Qualifies(1)
    /\ Qualifies(2)
    /\ Len(calls) = 1
    /\ calls[1].node = 2
    /\ calls[1].net.nodes = << >>
    /\ calls[1].net.edges = << >>

====
